---------------------------- MODULE Spec2Model ----------------------------
(***************************************************************************)
(* sensorsd (usr.sbin/sensorsd/sensorsd.c): the threshold-watch engine.    *)
(*                                                                         *)
(* C strings are sequences of one-character strings (the terminating NUL   *)
(* is implicit: cmd[i] == '\0' is i > Len(cmd)).  int64_t values are       *)
(* integers; LLONG_MAX and LLONG_MIN are the widest integers TLC          *)
(* represents and are rendered with the digits of the 64-bit values.       *)
(***************************************************************************)
EXTENDS Integers, Sequences, FiniteSets, TLC

(***************************************************************************)
(* Bounds of the model                                                     *)
(***************************************************************************)
\* sizeof(buf) in report(): BUFSIZ of <stdio.h> (1024), scaled down so that
\* an expansion of a handful of placeholders reaches it
BUFSIZ == 24
\* longest command template (in tokens) of the template universe
MaxTmplToks == 3
\* samples fed to one sensor in the hysteresis specification
MaxFed == 6
\* clock ticks (seconds passing between two statements of the main loop)
MaxTicks == 1
\* SIGHUP deliveries
MaxSighups == 1
\* seconds of the main loop that are explored after startup
MaxRun == 61
\* SIGHUPs delivered in the reload specification
MaxReloads == 2

(***************************************************************************)
(* Program constants                                                       *)
(***************************************************************************)
REPORT_PERIOD == 60
CHECK_PERIOD == 20
LLONG_MAX == 2147483647
LLONG_MIN == (-LLONG_MAX) - 1
\* time(NULL) at line 162
StartTime == 1000

NULL == <<"NULL">>

(***************************************************************************)
(* Strings                                                                 *)
(***************************************************************************)
Digit(d) == <<"0", "1", "2", "3", "4", "5", "6", "7", "8", "9">>[d + 1]

RECURSIVE NatToStr(_)
\* printf "%d" / "%lld" of a non-negative number
NatToStr(n) ==
    IF n < 10 THEN <<Digit(n)>>
    ELSE NatToStr(n \div 10) \o <<Digit(n % 10)>>

\* printf "%lld"
LldToStr(v) ==
    IF v = LLONG_MAX THEN
        <<"9","2","2","3","3","7","2","0","3","6","8","5","4","7","7","5","8","0","7">>
    ELSE IF v = LLONG_MIN THEN
        <<"-","9","2","2","3","3","7","2","0","3","6","8","5","4","7","7","5","8","0","8">>
    ELSE IF v < 0 THEN <<"-">> \o NatToStr(-v)
    ELSE NatToStr(v)

\* printf "%.2f" of (v / unit), unit a multiple of 100: v is rounded to the
\* nearest hundredth of the unit (the values of the model are never at a tie)
Fmt2(v, unit) ==
    LET q == unit \div 100
        a == IF v < 0 THEN -v ELSE v
        h == (a + (q \div 2)) \div q
        neg == v < 0 /\ h > 0
    IN  (IF neg THEN <<"-">> ELSE <<>>)
        \o NatToStr(h \div 100) \o <<".">>
        \o <<Digit((h % 100) \div 10), Digit(h % 10)>>

\* "%.2f" of (v / 1000000.0) for the two 64-bit extremes
Fmt2Micro(v) ==
    IF v = LLONG_MAX THEN
        <<"9","2","2","3","3","7","2","0","3","6","8","5","4",".","7","8">>
    ELSE IF v = LLONG_MIN THEN
        <<"-","9","2","2","3","3","7","2","0","3","6","8","5","4",".","7","8">>
    ELSE Fmt2(v, 1000000)

\* "%.2f" of (v / 1000.0)
Fmt2Milli(v) ==
    IF v = LLONG_MAX THEN
        <<"9","2","2","3","3","7","2","0","3","6","8","5","4","7","7","6",".","0","0">>
    ELSE IF v = LLONG_MIN THEN
        <<"-","9","2","2","3","3","7","2","0","3","6","8","5","4","7","7","6",".","0","0">>
    ELSE Fmt2(v, 1000)

(***************************************************************************)
(* sys/sensors.h                                                           *)
(***************************************************************************)
SENSOR_S_UNSPEC == "UNSPEC"
SENSOR_S_OK == "OK"
SENSOR_S_WARN == "WARN"
SENSOR_S_CRIT == "CRIT"
SENSOR_S_UNKNOWN == "UNKNOWN"
sensor_status == {SENSOR_S_UNSPEC, SENSOR_S_OK, SENSOR_S_WARN, SENSOR_S_CRIT,
                  SENSOR_S_UNKNOWN}

sensor_type_s(type) ==
    CASE type = "SENSOR_TEMP" -> <<"t","e","m","p">>
      [] type = "SENSOR_FANRPM" -> <<"f","a","n">>
      [] type = "SENSOR_VOLTS_DC" -> <<"v","o","l","t">>
      [] OTHER -> <<"r","a","w">>

drvstat == << NULL, <<"e","m","p","t","y">>, <<"r","e","a","d","y">>,
    <<"p","o","w","e","r","u","p">>, <<"o","n","l","i","n","e">>,
    <<"i","d","l","e">>, <<"a","c","t","i","v","e">>,
    <<"r","e","b","u","i","l","d">>,
    <<"p","o","w","e","r","d","o","w","n">>, <<"f","a","i","l">>,
    <<"p","f","a","i","l">> >>

(***************************************************************************)
(* print_sensor: the display string of a raw value.  ub is what the build  *)
(* produces where the subtraction of line 364 overflows int64_t.           *)
(***************************************************************************)
print_sensor(type, value, ub) ==
    CASE type = "SENSOR_TEMP" ->
           (IF value = LLONG_MIN THEN ub
            ELSE IF value = LLONG_MAX THEN
              <<"9","2","2","3","3","7","2","0","3","6","5","8","1",".","6","2">>
            ELSE Fmt2(value - 273150000, 1000000))
           \o <<" ","d","e","g","C">>
      [] type = "SENSOR_FANRPM" -> LldToStr(value) \o <<" ","R","P","M">>
      [] type = "SENSOR_VOLTS_DC" -> Fmt2Micro(value) \o <<" ","V"," ","D","C">>
      [] type = "SENSOR_AMPS" -> Fmt2Micro(value) \o <<" ","A">>
      [] type = "SENSOR_INDICATOR" ->
           IF value # 0 THEN <<"O","n">> ELSE <<"O","f","f">>
      [] type = "SENSOR_INTEGER" -> LldToStr(value) \o <<" ","r","a","w">>
      [] type = "SENSOR_PERCENT" -> Fmt2Milli(value) \o <<"%">>
      [] type = "SENSOR_LUX" -> Fmt2Micro(value) \o <<" ","l","x">>
      [] type = "SENSOR_DRIVE" /\ 0 < value /\ value < Len(drvstat) ->
           drvstat[value + 1]
      [] OTHER -> LldToStr(value) \o <<" ","?","?","?">>

\* outcomes of the overflowing subtraction: wrapped around, or saturated
UBOutcomes == {
    <<"9","2","2","3","3","7","2","0","3","6","5","8","1",".","6","2">>,
    <<"-","9","2","2","3","3","7","2","0","3","6","8","5","4",".","7","8">> }

(***************************************************************************)
(* get_val: a threshold string of the configuration as a raw value.        *)
(* The thresholds of the model are whole numbers with a unit suffix.       *)
(***************************************************************************)
IsDigit(c) == c \in {"0", "1", "2", "3", "4", "5", "6", "7", "8", "9"}

DigitVal(c) ==
    CASE c = "0" -> 0 [] c = "1" -> 1 [] c = "2" -> 2 [] c = "3" -> 3
      [] c = "4" -> 4 [] c = "5" -> 5 [] c = "6" -> 6 [] c = "7" -> 7
      [] c = "8" -> 8 [] c = "9" -> 9

RECURSIVE DigitsEnd(_, _)
\* index of the first character at or after i that is no digit
DigitsEnd(buf, i) ==
    IF i <= Len(buf) /\ IsDigit(buf[i]) THEN DigitsEnd(buf, i + 1) ELSE i

RECURSIVE DigitsVal(_, _, _, _)
DigitsVal(buf, i, e, acc) ==
    IF i >= e THEN acc ELSE DigitsVal(buf, i + 1, e, acc * 10 + DigitVal(buf[i]))

\* strtod(buf, &p): val is the number read, p the index of the first
\* character not read (p = 1 when no number was read)
strtod(buf) ==
    LET neg == Len(buf) >= 1 /\ buf[1] = "-"
        b == IF neg THEN 2 ELSE 1
        e == DigitsEnd(buf, b)
        v == DigitsVal(buf, b, e, 0)
    IN  IF e = b THEN [val |-> 0, p |-> 1]
        ELSE [val |-> IF neg THEN -v ELSE v, p |-> e]

\* [ok |-> FALSE] is err(1)/errx(1): the process exits
get_val(buf, upper, type) ==
    IF buf = NULL THEN
        [ok |-> TRUE, rval |-> IF upper = 1 THEN LLONG_MAX ELSE LLONG_MIN]
    ELSE
        LET d == strtod(buf)
            unit == IF d.p <= Len(buf) THEN buf[d.p] ELSE "\\0"
        IN  IF d.p = 1 THEN [ok |-> FALSE, rval |-> 0]
            ELSE CASE type = "SENSOR_TEMP" ->
                        (CASE unit = "C" ->
                                [ok |-> TRUE, rval |-> d.val * 1000000 + 273160000]
                           [] unit = "F" ->
                                [ok |-> TRUE,
                                 rval |-> ((d.val - 32) * 5000000) \div 9 + 273160000]
                           [] OTHER -> [ok |-> FALSE, rval |-> 0])
                   [] type = "SENSOR_FANRPM" -> [ok |-> TRUE, rval |-> d.val]
                   [] type = "SENSOR_VOLTS_DC" ->
                        IF unit # "V" THEN [ok |-> FALSE, rval |-> 0]
                        ELSE [ok |-> TRUE, rval |-> d.val * 1000000]
                   [] type = "SENSOR_PERCENT" -> [ok |-> TRUE, rval |-> d.val * 1000]
                   [] type \in {"SENSOR_INDICATOR", "SENSOR_INTEGER", "SENSOR_DRIVE"} ->
                        [ok |-> TRUE, rval |-> d.val]
                   [] type = "SENSOR_LUX" -> [ok |-> TRUE, rval |-> d.val * 1000000]
                   [] OTHER -> [ok |-> FALSE, rval |-> 0]

(***************************************************************************)
(* The sensors found at startup (main, lines 107-137), in list order       *)
(***************************************************************************)
Registry == <<
    [dxname |-> <<"c","p","u","0">>, type |-> "SENSOR_TEMP", numt |-> 0],
    [dxname |-> <<"l","m","1">>, type |-> "SENSOR_FANRPM", numt |-> 1] >>

Sensors == 1..Len(Registry)

\* calloc(1, sizeof(struct limits_t)): every field zero, command NULL
NewLimit ==
    [watch |-> 0, last_val |-> 0, lower |-> 0, upper |-> 0, command |-> NULL,
     status_changed |-> 0, status |-> SENSOR_S_UNSPEC,
     status2 |-> SENSOR_S_UNSPEC, count |-> 0]

(***************************************************************************)
(* The configuration file: for each sensor its record (cgetent), or none.  *)
(* An unreadable file has no record for any sensor.                        *)
(***************************************************************************)
NoRecord == [present |-> FALSE]
Record(low, high, command) ==
    [present |-> TRUE, low |-> low, high |-> high, command |-> command]

\* parse_limit starting the hysteresis of a watched sensor afresh
parse_limit_restart(p, type, rec) ==
    IF ~rec.present THEN [p EXCEPT !.watch = 0]
    ELSE [p EXCEPT !.watch = 1,
                   !.lower = get_val(rec.low, 0, type).rval,
                   !.upper = get_val(rec.high, 1, type).rval,
                   !.command = IF rec.command # NULL THEN rec.command ELSE @,
                   !.status2 = p.status, !.count = 0]

\* parse_config, one sensor: lines 416-435
parse_limit(p, type, rec) ==
    IF ~rec.present THEN [p EXCEPT !.watch = 0]
    ELSE [p EXCEPT !.watch = 1,
                   !.lower = get_val(rec.low, 0, type).rval,
                   !.upper = get_val(rec.high, 1, type).rval,
                   !.command = IF rec.command # NULL THEN rec.command ELSE @]

\* parse_config: the whole list, and the count it returns
parse_config(lim, cf) ==
    [k \in Sensors |-> parse_limit(lim[k], Registry[k].type, cf[k])]

watch_cnt(lim) == Cardinality({k \in Sensors : lim[k].watch = 1})

\* a threshold of cf makes get_val exit the process
config_fatal(cf) ==
    \E k \in Sensors :
        /\ cf[k].present
        /\ \/ ~get_val(cf[k].low, 0, Registry[k].type).ok
           \/ ~get_val(cf[k].high, 1, Registry[k].type).ok

(***************************************************************************)
(* check_sensors, one watched sensor                                       *)
(***************************************************************************)
\* candidate with the bounds themselves counted as breaches
candidate_inclusive(smp, lower, upper) ==
    IF smp.status = SENSOR_S_UNKNOWN THEN SENSOR_S_WARN
    ELSE IF smp.status = SENSOR_S_UNSPEC THEN
        IF smp.value >= upper \/ smp.value <= lower
        THEN SENSOR_S_CRIT ELSE SENSOR_S_OK
    ELSE smp.status

\* lines 215-226: the candidate status of a sample
candidate(smp, lower, upper) ==
    IF smp.status = SENSOR_S_UNKNOWN THEN SENSOR_S_WARN
    ELSE IF smp.status = SENSOR_S_UNSPEC THEN
        IF smp.value > upper \/ smp.value < lower
        THEN SENSOR_S_CRIT ELSE SENSOR_S_OK
    ELSE smp.status

\* debounce confirming one sample early (count + 1 >= 2)
debounce_early(l, ns, t) ==
    IF l.status # ns THEN
        IF ns = SENSOR_S_OK THEN
            [l EXCEPT !.status2 = ns, !.status = ns, !.status_changed = t]
        ELSE IF l.status2 # ns THEN
            [l EXCEPT !.status2 = ns, !.count = 0]
        ELSE IF l.count + 1 >= 2 THEN
            [l EXCEPT !.count = @ + 1, !.status2 = ns, !.status = ns,
                      !.status_changed = t]
        ELSE [l EXCEPT !.count = @ + 1]
    ELSE l

\* debounce without the branch of lines 229-232: OK is debounced as well
debounce_slow(l, ns, t) ==
    IF l.status # ns THEN
        IF l.status2 # ns THEN
            [l EXCEPT !.status2 = ns, !.count = 0]
        ELSE IF l.count + 1 >= 3 THEN
            [l EXCEPT !.count = @ + 1, !.status2 = ns, !.status = ns,
                      !.status_changed = t]
        ELSE [l EXCEPT !.count = @ + 1]
    ELSE l

\* debounce that keeps the counter when the pending status changes
debounce_keep(l, ns, t) ==
    IF l.status # ns THEN
        IF ns = SENSOR_S_OK THEN
            [l EXCEPT !.status2 = ns, !.status = ns, !.status_changed = t]
        ELSE IF l.status2 # ns THEN
            [l EXCEPT !.status2 = ns]
        ELSE IF l.count + 1 >= 3 THEN
            [l EXCEPT !.count = @ + 1, !.status2 = ns, !.status = ns,
                      !.status_changed = t]
        ELSE [l EXCEPT !.count = @ + 1]
    ELSE l

\* lines 228-241: the debounce of the candidate ns at time t
debounce(l, ns, t) ==
    IF l.status # ns THEN
        IF ns = SENSOR_S_OK THEN
            [l EXCEPT !.status2 = ns, !.status = ns, !.status_changed = t]
        ELSE IF l.status2 # ns THEN
            [l EXCEPT !.status2 = ns, !.count = 0]
        ELSE IF l.count + 1 >= 3 THEN
            [l EXCEPT !.count = @ + 1, !.status2 = ns, !.status = ns,
                      !.status_changed = t]
        ELSE [l EXCEPT !.count = @ + 1]
    ELSE l

\* lines 214-241
check_limit(l, smp, t) ==
    debounce([l EXCEPT !.last_val = smp.value],
             candidate(smp, l.lower, l.upper), t)

(***************************************************************************)
(* report: the command template of one sensor (lines 277-340)              *)
(***************************************************************************)
\* placeholder with %% written as one %
placeholder_single(c, k, l, ub) ==
    CASE c = "x" -> Registry[k].dxname
      [] c = "t" -> sensor_type_s(Registry[k].type)
      [] c = "n" -> NatToStr(Registry[k].numt)
      [] c = "2" -> print_sensor(Registry[k].type, l.last_val, ub)
      [] c = "3" -> print_sensor(Registry[k].type, l.lower, ub)
      [] c = "4" -> print_sensor(Registry[k].type, l.upper, ub)
      [] c = "%" -> <<"%">>
      [] OTHER -> <<"%", c>>

\* placeholder with %3 and %4 exchanged
placeholder_swapped(c, k, l, ub) ==
    CASE c = "x" -> Registry[k].dxname
      [] c = "t" -> sensor_type_s(Registry[k].type)
      [] c = "n" -> NatToStr(Registry[k].numt)
      [] c = "2" -> print_sensor(Registry[k].type, l.last_val, ub)
      [] c = "3" -> print_sensor(Registry[k].type, l.upper, ub)
      [] c = "4" -> print_sensor(Registry[k].type, l.lower, ub)
      [] OTHER -> <<"%", c>>

\* the text snprintf is asked to write for the character c after a %
placeholder(c, k, l, ub) ==
    CASE c = "x" -> Registry[k].dxname
      [] c = "t" -> sensor_type_s(Registry[k].type)
      [] c = "n" -> NatToStr(Registry[k].numt)
      [] c = "2" -> print_sensor(Registry[k].type, l.last_val, ub)
      [] c = "3" -> print_sensor(Registry[k].type, l.lower, ub)
      [] c = "4" -> print_sensor(Registry[k].type, l.upper, ub)
      [] OTHER -> <<"%", c>>

RECURSIVE expand(_, _, _, _, _, _)
\* the for loop of line 283 from index i with buf filled up to n = Len(buf):
\*   "done"  buf was NUL-terminated (lines 284-287, 293-296)
\*   "fail"  snprintf did not fit (line 331)
\*   "full"  the loop ended on n < len being false: buf holds len
\*           characters and no NUL
expand(cmd, i, buf, k, l, ub) ==
    IF ~(Len(buf) < BUFSIZ) THEN [how |-> "full", buf |-> buf]
    ELSE IF i > Len(cmd) THEN [how |-> "done", buf |-> buf]
    ELSE IF cmd[i] # "%" THEN expand(cmd, i + 1, Append(buf, cmd[i]), k, l, ub)
    ELSE IF i + 1 > Len(cmd) THEN [how |-> "done", buf |-> buf]
    ELSE LET out == placeholder(cmd[i + 1], k, l, ub)
             r == Len(out)
         IN  IF r >= BUFSIZ - Len(buf) THEN [how |-> "fail", buf |-> buf]
             ELSE expand(cmd, i + 2, buf \o out, k, l, ub)

\* what follows an unterminated buf in memory, up to the first NUL
GarbageTails == { <<>>, <<"#">> }

AlertLine(k, l, ub) ==
    [pri |-> "LOG_ALERT", sensor |-> k, watch |-> l.watch,
     within |-> (l.status = SENSOR_S_OK),
     value |-> print_sensor(Registry[k].type, l.last_val, ub)]

ParseFailLine(k, l) ==
    [pri |-> "LOG_CRIT", sensor |-> k, watch |-> l.watch,
     within |-> FALSE, value |-> <<>>]

Command(k, l, x, tail) ==
    [sensor |-> k, watch |-> l.watch, terminated |-> (x.how = "done"),
     cmd |-> IF x.how = "done" THEN x.buf ELSE x.buf \o tail]

RECURSIVE report(_, _, _, _, _, _)
\* report(last_report) from the k-th sensor of the list on: the lines
\* logged and the commands handed to execute, after those of out
report(k, lim, last, out, ub, tail) ==
    IF k > Len(Registry) THEN out
    ELSE IF lim[k].status_changed <= last THEN
        report(k + 1, lim, last, out, ub, tail)
    ELSE
        LET l == lim[k]
            logged == [out EXCEPT !.syslog = Append(@, AlertLine(k, l, ub))]
        IN  IF l.command = NULL THEN report(k + 1, lim, last, logged, ub, tail)
            ELSE
              LET x == expand(l.command, 1, <<>>, k, l, ub)
              IN  IF x.how = "fail" THEN
                      [logged EXCEPT !.syslog = Append(@, ParseFailLine(k, l))]
                  ELSE IF x.how = "done" /\ x.buf = <<>> THEN
                      report(k + 1, lim, last, logged, ub, tail)
                  ELSE report(k + 1, lim, last,
                         [logged EXCEPT !.exec = Append(@, Command(k, l, x, tail))],
                         ub, tail)

NoOutput == [syslog |-> <<>>, exec |-> <<>>]

\* main has logged nothing about a reload yet
NotReloaded == [pri |-> "none", watch_cnt |-> 0]

\* what main logs after parse_config returned n in the loop (lines 166-172)
ReloadLine(n) ==
    IF n = -1 THEN [pri |-> "LOG_CRIT", watch_cnt |-> n]
    ELSE [pri |-> "LOG_INFO", watch_cnt |-> n]

(***************************************************************************)
(* State                                                                   *)
(***************************************************************************)
VARIABLES
    limits,        \* the list of struct limits_t, by position
    conf,          \* the configuration file as it is on disk
    reload,        \* the flag set by reparse_cfg
    now,           \* what time(NULL) returns
    next_check, next_report, last_report,   \* locals of main
    pc,            \* the statement of main's loop that runs next
    syslog,        \* the lines logged by the last report pass
    executed,      \* the commands handed to execute by the last report pass
    nlogged,       \* report passes that logged the sensor since its
                   \* confirmed status last changed
    fed,           \* what the specification keeps of the samples fed to
                   \* each sensor since startup
    ticks, sighups, \* clock ticks and SIGHUPs so far
    served,        \* the SIGHUPs delivered before parse_config last started
    reloaded       \* what main logged after the last reload

vars == <<limits, conf, reload, now, next_check, next_report, last_report, pc,
          syslog, executed, nlogged, fed, ticks, sighups, served, reloaded>>

(***************************************************************************)
(* Configuration files and hardware readings of the model                  *)
(***************************************************************************)
T25C == <<"2","5","C">>
T70C == <<"7","0","C">>
T80C == <<"8","0","C">>
R1000 == <<"1","0","0","0">>
R3000 == <<"3","0","0","0">>

Thresholds(type) ==
    IF type = "SENSOR_TEMP" THEN {NULL, T70C, T80C} ELSE {NULL, R1000, R3000}

\* raw values around the thresholds: below the lower one, equal to it,
\* between them, equal to the upper one, above it
Values(type) ==
    IF type = "SENSOR_TEMP"
    THEN {343150000, 343160000, 353150000, 353160000, 353170000}
    ELSE {999, 1000, 2000, 3000, 3001}

Nominal(type) == IF type = "SENSOR_TEMP" THEN 353150000 ELSE 2000

CmdShort == <<"e"," ","%","x">>
CmdLong == <<"%","2","%","2","%","2">>

\* a file that cannot be read: cgetent (line 418) finds no record in it
Unreadable == <<NoRecord, NoRecord>>

\* a file with a threshold get_val rejects: no unit for a temperature
Malformed == <<Record(<<"8","0">>, NULL, NULL), NoRecord>>

\* the files an administrator installs while the daemon runs
LoopConfigs == {
    <<Record(T70C, T80C, CmdShort), Record(NULL, NULL, NULL)>>,
    <<Record(NULL, NULL, CmdLong), Record(NULL, NULL, CmdShort)>>,
    <<Record(T70C, T80C, NULL), NoRecord>>,
    Unreadable, Malformed }

\* one watched sensor with every pair of thresholds
BoundsConfigs ==
    { [k \in Sensors |-> IF k = w THEN Record(lo, hi, NULL) ELSE NoRecord] :
        w \in Sensors, lo \in Thresholds("SENSOR_TEMP") \cup Thresholds("SENSOR_FANRPM"),
        hi \in Thresholds("SENSOR_TEMP") \cup Thresholds("SENSOR_FANRPM") }

\* one watched sensor, with both thresholds or none
HystConfigs ==
    { <<Record(T70C, T80C, NULL), NoRecord>>,
      <<Record(NULL, NULL, NULL), NoRecord>>,
      <<NoRecord, Record(R1000, R3000, NULL)>>,
      <<NoRecord, Record(NULL, NULL, NULL)>> }

\* the files installed in the reload specification: each sensor is watched
\* by some and not by others
ReloadConfigs ==
    { <<Record(NULL, NULL, NULL), NoRecord>>,
      <<NoRecord, Record(NULL, NULL, NULL)>>,
      <<Record(T70C, T80C, NULL), Record(NULL, NULL, NULL)>> }

\* the pieces command templates are made of: literal text, the placeholders
\* of lines 299-325, % before another character, and a lone %
Lit12 == <<"a","b","c","d","e","f","g","h","i","j","k","l">>
Tokens == { <<"a">>, Lit12, <<"%","x">>, <<"%","t">>, <<"%","n">>,
            <<"%","2">>, <<"%","3">>, <<"%","4">>, <<"%","q">>,
            <<"%","%">>, <<"%">> }

RECURSIVE Flatten(_)
Flatten(ts) == IF ts = <<>> THEN <<>> ELSE Head(ts) \o Flatten(Tail(ts))

CmdExample == <<"%","x","-","%","t","%","n",":","%","2">>

Templates ==
    { Flatten(ts) : ts \in UNION { [1..n -> Tokens] : n \in 0..MaxTmplToks } }
    \cup { CmdExample }

\* one watched sensor, with both thresholds or none, and a command template
TmplConfigs ==
    { <<Record(lo, hi, cmd), NoRecord>> :
        lo \in {T70C}, hi \in {T80C}, cmd \in Templates }
    \cup { <<Record(NULL, NULL, cmd), NoRecord>> : cmd \in Templates }
    \cup { <<NoRecord, Record(NULL, NULL, cmd)>> : cmd \in Templates }
    \cup { <<Record(T25C, T80C, cmd), NoRecord>> :
             cmd \in { <<"%","3">>, <<"%","4">> } }

WellTyped(cf) ==
    \A k \in Sensors : cf[k].present =>
        /\ cf[k].low \in Thresholds(Registry[k].type)
        /\ cf[k].high \in Thresholds(Registry[k].type)

\* the samples the hardware returns in the main loop specification
LoopReadings(k) ==
    [value : {Nominal(Registry[k].type)},
     status : {SENSOR_S_OK, SENSOR_S_CRIT, SENSOR_S_UNKNOWN}]

\* the samples of the template specification
TmplReadings(k) ==
    [value : {Nominal(Registry[k].type)},
     status : {SENSOR_S_OK, SENSOR_S_UNKNOWN}]

\* every value around the thresholds with every status
BoundsReadings(k) == [value : Values(Registry[k].type), status : sensor_status]

\* the samples of the hysteresis specification: a value left to the
\* thresholds to classify, or a status reported by the device
HystReadings(k) ==
    [value : Values(Registry[k].type), status : {SENSOR_S_UNSPEC}]
    \cup [value : {Nominal(Registry[k].type)},
          status : sensor_status \ {SENSOR_S_UNSPEC}]

\* the samples of the reload specification
ReloadReadings(k) ==
    [value : {Nominal(Registry[k].type)},
     status : {SENSOR_S_OK, SENSOR_S_CRIT}]

\* the samples the hardware returns in the environment env
Readings(env, k) ==
    CASE env = "loop" -> LoopReadings(k)
      [] env = "reload" -> ReloadReadings(k)
      [] env = "hyst" -> HystReadings(k)
      [] env = "bounds" -> BoundsReadings(k)
      [] env = "tmpl" -> TmplReadings(k)

\* what fed keeps of them
Keeps(env) ==
    CASE env = "loop" -> "no"
      [] env = "reload" -> "newstatus"
      [] env = "hyst" -> "newstatus"
      [] env = "bounds" -> "sample"
      [] env = "tmpl" -> "no"

\* the sample of a sensor that is not watched: none is read
NotRead == [value |-> 0, status |-> SENSOR_S_UNSPEC]

(***************************************************************************)
(* Startup: main up to line 162, with the configuration file cf            *)
(***************************************************************************)
Startup(cf) ==
    /\ ~config_fatal(cf)
    /\ watch_cnt(parse_config([k \in Sensors |-> NewLimit], cf)) > 0
    /\ conf = cf
    /\ limits = parse_config([k \in Sensors |-> NewLimit], cf)
    /\ reload = 0
    /\ now = StartTime
    /\ next_check = StartTime
    /\ next_report = StartTime
    /\ last_report = 0
    /\ pc = "loop"
    /\ syslog = <<>>
    /\ executed = <<>>
    /\ nlogged = [k \in Sensors |-> 0]
    /\ fed = [k \in Sensors |-> <<>>]
    /\ ticks = 0
    /\ sighups = 0
    /\ served = 0
    /\ reloaded = NotReloaded

(***************************************************************************)
(* The loop of main (lines 164-190)                                        *)
(***************************************************************************)
\* lines 165-172: a pending reload runs parse_config
LoopTop ==
    /\ pc = "loop"
    /\ IF reload = 1
       THEN /\ limits' = parse_config(limits, conf)
            /\ pc' = IF config_fatal(conf) THEN "exit" ELSE "parsed"
            /\ served' = sighups
       ELSE /\ pc' = "check"
            /\ UNCHANGED <<limits, served>>
    /\ UNCHANGED <<conf, reload, now, next_check, next_report, last_report,
                   syslog, executed, nlogged, fed, ticks, sighups, reloaded>>

\* lines 166-173: parse_config returned watch_cnt, never -1
ReloadDone ==
    /\ pc = "parsed"
    /\ reloaded' = ReloadLine(watch_cnt(limits))
    /\ reload' = 0
    /\ pc' = "check"
    /\ UNCHANGED <<limits, conf, now, next_check, next_report, last_report,
                   syslog, executed, nlogged, fed, ticks, sighups, served>>

\* check_sensors (lines 206-242) on the samples smp
check_sensors(smp) ==
    /\ limits' = [k \in Sensors |->
                    IF limits[k].watch = 1
                    THEN check_limit(limits[k], smp[k], now) ELSE limits[k]]
    /\ nlogged' = [k \in Sensors |->
                    IF limits'[k].status # limits[k].status THEN 0
                    ELSE nlogged[k]]

\* what fed keeps of a sample read at time t: its candidate status
\* (newstatus) and the hysteresis fields of the sensor after it (l2), and
\* with rec = "sample" the value and status read as well
Fed(rec, smp, l, l2, t) ==
    LET c == candidate(smp, l.lower, l.upper)
    IN  IF rec = "sample"
        THEN [newstatus |-> c, at |-> t, status |-> l2.status,
              status2 |-> l2.status2, count |-> l2.count,
              status_changed |-> l2.status_changed, sample |-> smp]
        ELSE [newstatus |-> c, at |-> t, status |-> l2.status,
              status2 |-> l2.status2, count |-> l2.count,
              status_changed |-> l2.status_changed]

\* lines 175-178; the hardware returns a sample of Readings(env, k) for
\* each watched sensor k
Check(env) ==
    /\ pc = "check"
    /\ pc' = "report"
    /\ IF next_check <= now
       THEN /\ \A k \in Sensors : Len(fed[k]) < MaxFed
            /\ \E smp \in [Sensors -> {NotRead} \cup
                                        UNION {Readings(env, k) : k \in Sensors}] :
                 /\ \A k \in Sensors :
                      IF limits[k].watch = 1 THEN smp[k] \in Readings(env, k)
                      ELSE smp[k] = NotRead
                 /\ check_sensors(smp)
                 /\ fed' = [k \in Sensors |->
                        IF Keeps(env) # "no" /\ limits[k].watch = 1
                        THEN Append(fed[k],
                               Fed(Keeps(env), smp[k], limits[k], limits'[k],
                                   now))
                        ELSE fed[k]]
            /\ next_check' = now + CHECK_PERIOD
       ELSE UNCHANGED <<limits, nlogged, fed, next_check>>
    /\ UNCHANGED <<conf, reload, now, next_report, last_report, syslog,
                   executed, ticks, sighups, served, reloaded>>

\* lines 175-176 with a sysctl that fails for the watched sensor f (lines
\* 210-211): the sensors before f were evaluated, and err(1) ends the process
SysctlFails(env) ==
    /\ pc = "check"
    /\ next_check <= now
    /\ \E f \in Sensors :
         /\ limits[f].watch = 1
         /\ \E smp \in [Sensors -> {NotRead} \cup
                                     UNION {Readings(env, k) : k \in Sensors}] :
              /\ \A k \in Sensors :
                   IF k < f /\ limits[k].watch = 1
                   THEN smp[k] \in Readings(env, k)
                   ELSE smp[k] = NotRead
              /\ limits' = [k \in Sensors |->
                              IF k < f /\ limits[k].watch = 1
                              THEN check_limit(limits[k], smp[k], now)
                              ELSE limits[k]]
    /\ pc' = "exit"
    /\ UNCHANGED <<conf, reload, now, next_check, next_report, last_report,
                   syslog, executed, nlogged, fed, ticks, sighups, served,
                   reloaded>>

\* lines 179-183
Report ==
    /\ pc = "report"
    /\ pc' = "sleep"
    /\ IF next_report <= now
       THEN /\ \E ub \in UBOutcomes, tail \in GarbageTails :
                 LET out == report(1, limits, last_report, NoOutput, ub, tail)
                 IN  /\ syslog' = out.syslog
                     /\ executed' = out.exec
                     /\ nlogged' = [k \in Sensors |->
                          IF \E j \in 1..Len(out.syslog) :
                                /\ out.syslog[j].sensor = k
                                /\ out.syslog[j].pri = "LOG_ALERT"
                          THEN nlogged[k] + 1 ELSE nlogged[k]]
            /\ last_report' = next_report
            /\ next_report' = now + REPORT_PERIOD
       ELSE UNCHANGED <<syslog, executed, nlogged, last_report, next_report>>
    /\ UNCHANGED <<limits, conf, reload, now, next_check, fed, ticks,
                   sighups, served, reloaded>>

\* lines 184-189; the loop is followed for maxrun seconds
Sleep(maxrun) ==
    LET sleeptime == IF next_report < next_check
                     THEN next_report - now ELSE next_check - now
    IN  /\ pc = "sleep"
        /\ pc' = "loop"
        /\ now' = IF sleeptime > 0 THEN now + sleeptime ELSE now
        /\ now' <= StartTime + maxrun
        /\ UNCHANGED <<limits, conf, reload, next_check, next_report,
                       last_report, syslog, executed, nlogged, fed, ticks,
                       sighups, served, reloaded>>

\* a second passes between two statements of the loop
Tick ==
    /\ ticks < MaxTicks
    /\ pc # "exit"
    /\ now < StartTime + MaxRun
    /\ now' = now + 1
    /\ ticks' = ticks + 1
    /\ UNCHANGED <<limits, conf, reload, next_check, next_report, last_report,
                   pc, syslog, executed, nlogged, fed, sighups, served,
                   reloaded>>

\* reparse_cfg (lines 502-506): the administrator installs a file and sends
\* SIGHUP; a signal that arrives during sleep() ends the sleep
Sighup ==
    /\ sighups < MaxSighups
    /\ pc # "exit"
    /\ sighups' = sighups + 1
    /\ reload' = 1
    /\ \E cf \in LoopConfigs : conf' = cf
    /\ \E interrupted \in BOOLEAN :
         pc' = IF pc = "sleep" /\ interrupted THEN "loop" ELSE pc
    /\ UNCHANGED <<limits, now, next_check, next_report, last_report,
                   syslog, executed, nlogged, fed, ticks, served, reloaded>>

\* reparse_cfg (lines 502-506) after the administrator installed one of the
\* files cfs, for up to max signals
SighupOf(cfs, max) ==
    /\ sighups < max
    /\ pc # "exit"
    /\ sighups' = sighups + 1
    /\ reload' = 1
    /\ \E cf \in cfs : conf' = cf
    /\ \E interrupted \in BOOLEAN :
         pc' = IF pc = "sleep" /\ interrupted THEN "loop" ELSE pc
    /\ UNCHANGED <<limits, now, next_check, next_report, last_report,
                   syslog, executed, nlogged, fed, ticks, served, reloaded>>

(***************************************************************************)
(* Specifications                                                          *)
(***************************************************************************)
\* the daemon with its clock and its administrator
Init == \E cf \in LoopConfigs : Startup(cf)

Next ==
    \/ LoopTop
    \/ ReloadDone
    \/ Check("loop")
    \/ SysctlFails("loop")
    \/ Report
    \/ Sleep(MaxRun)
    \/ Tick
    \/ Sighup

Spec == Init /\ [][Next]_vars

\* one watched sensor fed MaxFed samples
InitHyst == \E cf \in HystConfigs : Startup(cf)

NextHyst ==
    \/ LoopTop
    \/ Check("hyst")
    \/ Report
    \/ Sleep(MaxFed * CHECK_PERIOD)

SpecHyst == InitHyst /\ [][NextHyst]_vars

\* one watched sensor with every pair of thresholds, fed two samples
InitBounds == \E cf \in BoundsConfigs : WellTyped(cf) /\ Startup(cf)

NextBounds ==
    \/ LoopTop
    \/ Check("bounds")
    \/ Report
    \/ Sleep(CHECK_PERIOD)

SpecBounds == InitBounds /\ [][NextBounds]_vars

\* the first check and report of a sensor with a command template
InitTmpl == \E cf \in TmplConfigs : Startup(cf)

NextTmpl ==
    \/ LoopTop
    \/ Check("tmpl")
    \/ Report

SpecTmpl == InitTmpl /\ [][NextTmpl]_vars

\* two sensors, watched or not, through two reloads
InitReload == \E cf \in ReloadConfigs : Startup(cf)

NextReload ==
    \/ LoopTop
    \/ ReloadDone
    \/ Check("reload")
    \/ Report
    \/ Sleep(3 * CHECK_PERIOD)
    \/ SighupOf(ReloadConfigs, MaxReloads)

SpecReload == InitReload /\ [][NextReload]_vars

(***************************************************************************)
(* Claims                                                                  *)
(***************************************************************************)
\* the sensor k was fed the candidates cs, one after the other, right after
\* its i-th sample
FedRun(k, i, cs) ==
    /\ i + Len(cs) <= Len(fed[k])
    /\ \A j \in 1..Len(cs) : fed[k][i + j].newstatus = cs[j]

\* the i-th sample left the sensor k confirmed OK with no other status pending
CalmAfter(k, i) ==
    /\ i \in 1..Len(fed[k])
    /\ fed[k][i].status = SENSOR_S_OK
    /\ fed[k][i].status2 = SENSOR_S_OK

\* C1 as stated: with confirmed and pending status OK, three consecutive
\* CRIT samples leave the confirmed status OK after the 1st and the 2nd and
\* make it CRIT, with the change time stamped, on the 3rd
C1_ThirdSampleConfirms ==
    \A k \in Sensors : \A i \in 1..Len(fed[k]) :
        CalmAfter(k, i)
        /\ FedRun(k, i, <<SENSOR_S_CRIT, SENSOR_S_CRIT, SENSOR_S_CRIT>>)
        => /\ fed[k][i + 1].status = SENSOR_S_OK
           /\ fed[k][i + 2].status = SENSOR_S_OK
           /\ fed[k][i + 3].status = SENSOR_S_CRIT
           /\ fed[k][i + 3].status_changed = fed[k][i + 3].at

\* C1 amended: with confirmed and pending status OK, consecutive CRIT
\* samples leave the confirmed status OK (and the change time as it was)
\* after the 1st, 2nd and 3rd, and the 4th makes it CRIT and stamps the
\* change time
C1_FourthSampleConfirms ==
    \A k \in Sensors : \A i \in 1..Len(fed[k]) :
        CalmAfter(k, i) =>
          /\ \A n \in 1..3 :
               FedRun(k, i, [j \in 1..n |-> SENSOR_S_CRIT])
               => /\ fed[k][i + n].status = SENSOR_S_OK
                  /\ fed[k][i + n].status_changed = fed[k][i].status_changed
          /\ FedRun(k, i, [j \in 1..4 |-> SENSOR_S_CRIT])
               => /\ fed[k][i + 4].status = SENSOR_S_CRIT
                  /\ fed[k][i + 4].status2 = SENSOR_S_CRIT
                  /\ fed[k][i + 4].status_changed = fed[k][i + 4].at

C1_Witness ==
    \E k \in Sensors : \E i \in 1..Len(fed[k]) :
        /\ CalmAfter(k, i)
        /\ FedRun(k, i, [j \in 1..4 |-> SENSOR_S_CRIT])
        /\ limits[k].status = SENSOR_S_CRIT

\* C2: whatever the confirmed non-OK status, the pending status and the
\* streak counter, one sample with candidate OK makes confirmed and pending
\* status OK and stamps the change time in that pass
C2_RecoveryImmediate ==
    \A k \in Sensors : \A i \in 1..Len(fed[k]) :
        /\ fed[k][i].status \in {SENSOR_S_WARN, SENSOR_S_CRIT}
        /\ FedRun(k, i, <<SENSOR_S_OK>>)
        => /\ fed[k][i + 1].status = SENSOR_S_OK
           /\ fed[k][i + 1].status2 = SENSOR_S_OK
           /\ fed[k][i + 1].status_changed = fed[k][i + 1].at
           /\ fed[k][i + 1].status_changed > fed[k][i].status_changed

\* a confirmed CRIT with WARN pending recovered on one OK sample
C2_Witness ==
    \E k \in Sensors : \E i \in 1..Len(fed[k]) :
        /\ fed[k][i].status = SENSOR_S_CRIT
        /\ fed[k][i].status2 = SENSOR_S_WARN
        /\ FedRun(k, i, <<SENSOR_S_OK>>)
        /\ limits[k].status = SENSOR_S_OK

\* the hysteresis fields of the sensor k before its i-th sample
Before(k, i) == IF i = 1 THEN NewLimit ELSE fed[k][i - 1]

CCWCC == <<SENSOR_S_CRIT, SENSOR_S_CRIT, SENSOR_S_WARN, SENSOR_S_CRIT,
           SENSOR_S_CRIT>>

\* C3 as stated: from confirmed OK the samples CRIT, CRIT, WARN, CRIT, CRIT
\* never make the confirmed status CRIT or WARN; a sample whose non-OK
\* candidate differs from the pending status sets the pending status to the
\* candidate and the streak counter to 0
C3_AsStated ==
    \A k \in Sensors :
      /\ \A i \in 1..Len(fed[k]) : \A n \in 1..Len(CCWCC) :
           /\ fed[k][i].status = SENSOR_S_OK
           /\ FedRun(k, i, SubSeq(CCWCC, 1, n))
           => fed[k][i + n].status = SENSOR_S_OK
      /\ \A i \in 1..Len(fed[k]) :
           /\ fed[k][i].newstatus # SENSOR_S_OK
           /\ fed[k][i].newstatus # Before(k, i).status2
           => /\ fed[k][i].status2 = fed[k][i].newstatus
              /\ fed[k][i].count = 0

\* C3 amended: from confirmed OK with no other status pending the samples
\* CRIT, CRIT, WARN, CRIT, CRIT never make the confirmed status CRIT or
\* WARN; a sample whose non-OK candidate differs from the confirmed status
\* and from the pending status sets the pending status to the candidate and
\* the streak counter to 0, and leaves the confirmed status as it was
C3_StreakResets ==
    \A k \in Sensors :
      /\ \A i \in 1..Len(fed[k]) : \A n \in 1..Len(CCWCC) :
           /\ CalmAfter(k, i)
           /\ FedRun(k, i, SubSeq(CCWCC, 1, n))
           => fed[k][i + n].status = SENSOR_S_OK
      /\ \A i \in 1..Len(fed[k]) :
           /\ fed[k][i].newstatus # SENSOR_S_OK
           /\ fed[k][i].newstatus # Before(k, i).status
           /\ fed[k][i].newstatus # Before(k, i).status2
           => /\ fed[k][i].status2 = fed[k][i].newstatus
              /\ fed[k][i].count = 0
              /\ fed[k][i].status = Before(k, i).status

\* the five samples were fed after a calm OK, the WARN reset a running
\* streak, and the confirmed status is still OK
C3_Witness ==
    \E k \in Sensors : \E i \in 1..Len(fed[k]) :
        /\ CalmAfter(k, i)
        /\ FedRun(k, i, CCWCC)
        /\ fed[k][i + 2].count = 1
        /\ fed[k][i + 3].count = 0
        /\ limits[k].status = SENSOR_S_OK

\* C4 as stated: for a sample whose device status is unspecified the
\* candidate is CRIT exactly when value > upper or value < lower and OK
\* otherwise, and a value equal to lower or to upper is OK, whatever the
\* two bounds (lower > upper included)
C4_AsStated ==
    \A k \in Sensors : \A i \in 1..Len(fed[k]) :
        fed[k][i].sample.status = SENSOR_S_UNSPEC =>
          LET v == fed[k][i].sample.value
              breach == v > limits[k].upper \/ v < limits[k].lower
          IN  /\ fed[k][i].newstatus =
                   IF breach THEN SENSOR_S_CRIT ELSE SENSOR_S_OK
              /\ v \in {limits[k].lower, limits[k].upper}
                   => fed[k][i].newstatus = SENSOR_S_OK

\* C4 amended: the candidate is CRIT exactly when value > upper or
\* value < lower and OK otherwise, whatever the two bounds; a value equal to
\* lower or to upper is OK when lower <= upper, and with lower > upper every
\* value is CRIT.  The first sample after startup shows the candidate in
\* the state: OK is confirmed at once, CRIT becomes the pending status.
C4_StrictBounds ==
    \A k \in Sensors : \A i \in 1..Len(fed[k]) :
        fed[k][i].sample.status = SENSOR_S_UNSPEC =>
          LET v == fed[k][i].sample.value
              breach == v > limits[k].upper \/ v < limits[k].lower
          IN  /\ fed[k][i].newstatus =
                   IF breach THEN SENSOR_S_CRIT ELSE SENSOR_S_OK
              /\ v \in {limits[k].lower, limits[k].upper}
                 /\ limits[k].lower <= limits[k].upper
                   => fed[k][i].newstatus = SENSOR_S_OK
              /\ limits[k].lower > limits[k].upper
                   => fed[k][i].newstatus = SENSOR_S_CRIT
              /\ i = 1 =>
                   IF breach
                   THEN /\ fed[k][i].status = SENSOR_S_UNSPEC
                        /\ fed[k][i].status2 = SENSOR_S_CRIT
                   ELSE fed[k][i].status = SENSOR_S_OK

\* a value equal to the upper bound, above the lower one, was read as OK
\* and the next value above it as CRIT
C4_Witness ==
    \E k \in Sensors :
        /\ Len(fed[k]) = 2
        /\ limits[k].lower < limits[k].upper
        /\ limits[k].lower # LLONG_MIN
        /\ fed[k][1].sample = [value |-> limits[k].upper, status |-> SENSOR_S_UNSPEC]
        /\ fed[k][1].newstatus = SENSOR_S_OK
        /\ fed[k][2].sample.status = SENSOR_S_UNSPEC
        /\ fed[k][2].sample.value > limits[k].upper
        /\ fed[k][2].newstatus = SENSOR_S_CRIT

\* the last report pass logged the status change of the sensor k
Logged(k) ==
    \E j \in 1..Len(syslog) :
        syslog[j].sensor = k /\ syslog[j].pri = "LOG_ALERT"

\* the last report pass logged a template-parsing failure for the sensor k
ParseFailed(k) ==
    \E j \in 1..Len(syslog) :
        syslog[j].sensor = k /\ syslog[j].pri = "LOG_CRIT"

\* the commands the last report pass handed to execute for the sensor k
ExecutedFor(k) ==
    { executed[j] : j \in { i \in 1..Len(executed) : executed[i].sensor = k } }

\* execute was called once for the sensor k, with the complete string str
Ran(k, str) ==
    ExecutedFor(k) = { [sensor |-> k, watch |-> limits[k].watch,
                        terminated |-> TRUE, cmd |-> str] }

RECURSIVE EndsInLonePercent(_, _)
\* the template ends in a % that no character follows
EndsInLonePercent(cmd, i) ==
    IF i > Len(cmd) THEN FALSE
    ELSE IF cmd[i] # "%" THEN EndsInLonePercent(cmd, i + 1)
    ELSE IF i = Len(cmd) THEN TRUE
    ELSE EndsInLonePercent(cmd, i + 2)

\* what the claims say a % followed by the character c stands for
Field(c, k, ub) ==
    CASE c = "x" -> Registry[k].dxname
      [] c = "t" -> sensor_type_s(Registry[k].type)
      [] c = "n" -> NatToStr(Registry[k].numt)
      [] c = "2" -> print_sensor(Registry[k].type, limits[k].last_val, ub)
      [] c = "3" -> print_sensor(Registry[k].type, limits[k].lower, ub)
      [] c = "4" -> print_sensor(Registry[k].type, limits[k].upper, ub)
      [] OTHER -> <<"%", c>>

RECURSIVE Rendering(_, _, _, _)
\* the left-to-right concatenation of C9, from the i-th character on
Rendering(cmd, i, k, ub) ==
    IF i > Len(cmd) THEN <<>>
    ELSE IF cmd[i] # "%" THEN <<cmd[i]>> \o Rendering(cmd, i + 1, k, ub)
    ELSE IF i = Len(cmd) THEN <<>>
    ELSE Field(cmd[i + 1], k, ub) \o Rendering(cmd, i + 2, k, ub)

\* the sensor k was logged by the last report pass and has a command
\* template made of literal characters and of % followed by a character
Notified(k) ==
    /\ Logged(k)
    /\ limits[k].command # NULL
    /\ ~EndsInLonePercent(limits[k].command, 1)

\* C6 as stated: when the expansion of the template exceeds the buffer,
\* report logs a template-parsing failure and does not call execute; what
\* execute is called with is never a truncated or partial command
C6_AsStated ==
    \A k \in Sensors : Notified(k) =>
        \E ub \in UBOutcomes :
          LET full == Rendering(limits[k].command, 1, k, ub)
          IN  /\ Len(full) >= BUFSIZ
                 => ParseFailed(k) /\ ExecutedFor(k) = {}
              /\ \A e \in ExecutedFor(k) : e.terminated /\ e.cmd = full

RECURSIVE IsPairsOnly(_, _)
\* every % of the template is part of a pair %%
IsPairsOnly(cmd, i) ==
    IF i > Len(cmd) THEN TRUE
    ELSE IF cmd[i] # "%" THEN IsPairsOnly(cmd, i + 1)
    ELSE IF i + 1 <= Len(cmd) /\ cmd[i + 1] = "%" THEN IsPairsOnly(cmd, i + 2)
    ELSE FALSE

RECURSIVE PairsAsOne(_, _)
\* the template with each %% replaced by one %
PairsAsOne(cmd, i) ==
    IF i > Len(cmd) THEN <<>>
    ELSE IF cmd[i] # "%" THEN <<cmd[i]>> \o PairsAsOne(cmd, i + 1)
    ELSE <<"%">> \o PairsAsOne(cmd, i + 2)

\* the sensor k was logged and its template, which fits the buffer, has %%
\* and no other %
PairsTemplate(k) ==
    /\ Logged(k)
    /\ limits[k].command # NULL
    /\ "%" \in { limits[k].command[i] : i \in 1..Len(limits[k].command) }
    /\ IsPairsOnly(limits[k].command, 1)
    /\ Len(limits[k].command) < BUFSIZ

\* C8 as stated: %% in a template is rendered as one %
C8_AsStated ==
    \A k \in Sensors :
        PairsTemplate(k) => Ran(k, PairsAsOne(limits[k].command, 1))

\* C8 amended: %% in a template is rendered as the two characters %%, like
\* any % followed by a character that is no placeholder
C8_PercentPercent ==
    \A k \in Sensors : PairsTemplate(k) => Ran(k, limits[k].command)

C8_Witness ==
    \E k \in Sensors :
        /\ PairsTemplate(k)
        /\ limits[k].command = <<"a", "%", "%">>
        /\ Ran(k, <<"a", "%", "%">>)

\* C9: an expansion that fits the buffer is the left-to-right concatenation
\* of the literal characters, of the device name for %x, the type name for
\* %t, the sub-index in decimal for %n, the formatted current, lower and
\* upper value for %2, %3 and %4, and of %c for % before any other
\* character c; an expansion that does not fit is never run as if it did
C9_Expansion ==
    \A k \in Sensors : Notified(k) =>
        /\ \E ub \in UBOutcomes :
             LET full == Rendering(limits[k].command, 1, k, ub)
             IN  IF Len(full) >= BUFSIZ
                 THEN \A e \in ExecutedFor(k) : ~e.terminated
                 ELSE IF full = <<>> THEN ExecutedFor(k) = {}
                 ELSE Ran(k, full)
        /\ limits[k].command = <<"%", "q">> => Ran(k, <<"%", "q">>)
        /\ k = 1 /\ limits[k].command = CmdExample
           /\ limits[k].last_val = 353150000
             => Ran(k, <<"c","p","u","0","-","t","e","m","p","0",":",
                         "8","0",".","0","0"," ","d","e","g","C">>)

\* the example of C9 was expanded and run
C9_Witness ==
    /\ Notified(1)
    /\ limits[1].command = CmdExample
    /\ limits[1].last_val = 353150000
    /\ Len(executed) = 1

\* C5 as stated: a change of the confirmed status is logged by one report
\* pass, and by no later pass until the confirmed status changes again
C5_AsStated == \A k \in Sensors : nlogged[k] <= 1

\* C7 as stated: in a report pass that fails to expand the template of the
\* sensor k, every later sensor of the list whose status changed since the
\* previous report is logged, and its command run
C7_AsStated ==
    [][ \A k \in Sensors :
          pc = "report" /\ next_report <= now /\ ParseFailed(k)'
          => \A j \in Sensors :
               j > k /\ limits[j].status_changed > last_report
               => /\ Logged(j)'
                  /\ limits[j].command \notin {NULL, <<>>}
                     => ExecutedFor(j)' # {} \/ ParseFailed(j)' ]_vars

\* C10 as stated: no report pass logs a line or runs a command for a
\* sensor whose watch flag is 0
C10_AsStated ==
    /\ \A j \in 1..Len(syslog) : syslog[j].watch = 1
    /\ \A j \in 1..Len(executed) : executed[j].watch = 1

\* the fields of struct limits_t that check_sensors keeps of the samples
Hysteresis(l) ==
    <<l.status, l.status2, l.count, l.last_val, l.status_changed>>

\* C11: a reload leaves the confirmed status, the pending status, the streak
\* counter, the last value and the change time of a sensor watched before
\* and after it as they were; a sample that matches the pending status then
\* counts one more, and confirms when the counter reaches 3, whether or not
\* a reload ran since the sample before
C11_ReloadKeepsStreak ==
    [][ /\ pc = "loop" /\ reload = 1
          => \A k \in Sensors :
               limits[k].watch = 1 /\ limits'[k].watch = 1
               => Hysteresis(limits'[k]) = Hysteresis(limits[k])
        /\ \A k \in Sensors : \A i \in 2..Len(fed'[k]) :
             LET b == fed'[k][i - 1]
                 e == fed'[k][i]
             IN  b.status2 # b.status /\ e.newstatus = b.status2
                 => /\ e.count = b.count + 1
                    /\ e.status = e.newstatus <=> b.count + 1 >= 3 ]_vars

\* a reload has just run over a sensor with a CRIT streak of three samples
\* in progress, watched before and after, and the streak is as it was
C11_Witness ==
    \E k \in Sensors :
        /\ pc = "parsed"
        /\ limits[k].watch = 1
        /\ Len(fed[k]) = 3
        /\ limits[k].status2 = SENSOR_S_CRIT
        /\ limits[k].status # SENSOR_S_CRIT
        /\ limits[k].count = 2
        /\ Hysteresis(limits[k]) =
             <<fed[k][3].status, fed[k][3].status2, fed[k][3].count,
               Nominal(Registry[k].type), fed[k][3].status_changed>>

\* the WatchState of C12: confirmed and pending status, streak counter and
\* change time
WatchState(l) == <<l.status, l.status2, l.count, l.status_changed>>

\* C12 as stated: a sensor that a reload starts to watch (again, after an
\* earlier reload found no record for it) has the WatchState of a sensor
\* never evaluated, not the one it had before it was removed
C12_AsStated ==
    [][ pc = "loop" /\ reload = 1
        => \A k \in Sensors :
             limits[k].watch = 0 /\ limits'[k].watch = 1
             => WatchState(limits'[k]) = WatchState(NewLimit) ]_vars

\* the WatchConfig of a sensor: enabled flag, bounds and command template
WatchConfig(l) == <<l.watch, l.lower, l.upper, l.command>>

\* the reload that is about to run fails: the file is unreadable or malformed
FailedReload == conf = Unreadable \/ config_fatal(conf)

\* C13 as stated: a reload that fails leaves the enabled flag, the bounds and
\* the command template of every sensor as they were and does not end the
\* process, and main logs the failure
C13_AsStated ==
    [][ /\ pc = "loop" /\ reload = 1 /\ FailedReload
          => /\ \A k \in Sensors :
                  WatchConfig(limits'[k]) = WatchConfig(limits[k])
             /\ pc' # "exit"
        /\ pc = "parsed" /\ pc' = "check" /\ FailedReload
          => reloaded'.pri = "LOG_CRIT" ]_vars

\* a threshold of whole degrees Celsius, as the claim formats it
WholeDegrees(str) ==
    SubSeq(str, 1, Len(str) - 1) \o <<".","0","0"," ","d","e","g","C">>

\* C14 as stated: a temperature threshold of whole degrees Celsius ("25C")
\* converted by get_val and formatted by print_sensor reads as the same
\* number of degrees with two decimals ("25.00 degC")
C14_AsStated ==
    \A k \in Sensors :
        /\ Logged(k) /\ conf[k].present
        /\ Registry[k].type = "SENSOR_TEMP"
        => /\ limits[k].command = <<"%","3">> /\ conf[k].low # NULL
              => Ran(k, WholeDegrees(conf[k].low))
           /\ limits[k].command = <<"%","4">> /\ conf[k].high # NULL
              => Ran(k, WholeDegrees(conf[k].high))

\* C15 as stated: a check_sensors pass of the main loop in which the read
\* of a watched sensor fails does not end the process: the loop goes on to
\* the report and to later passes
C15_AsStated == [][ pc = "check" => pc' \in {"check", "report"} ]_vars

\* C16 as stated: after a parse_config run the bounds and the command
\* template of a watched sensor are those of the record the run found: the
\* type minimum and maximum for an absent low and high, the converted
\* thresholds otherwise, and no command for an absent command field
C16_AsStated ==
    [][ pc = "loop" /\ reload = 1 /\ ~config_fatal(conf)
        => \A k \in Sensors : conf[k].present
             => /\ limits'[k].watch = 1
                /\ limits'[k].lower =
                     IF conf[k].low = NULL THEN LLONG_MIN
                     ELSE get_val(conf[k].low, 0, Registry[k].type).rval
                /\ limits'[k].upper =
                     IF conf[k].high = NULL THEN LLONG_MAX
                     ELSE get_val(conf[k].high, 1, Registry[k].type).rval
                /\ limits'[k].command = conf[k].command ]_vars

\* C17 as stated: the sample that confirms a non-OK status s ends a run of
\* consecutive samples with candidate s: the two samples before it were fed
\* to the sensor and yielded s as well, none of them a sample with another
\* candidate (the confirmed status included) that restarted the streak
C17_AsStated ==
    \A k \in Sensors : \A i \in 1..Len(fed[k]) :
        /\ fed[k][i].status # Before(k, i).status
        /\ fed[k][i].status # SENSOR_S_OK
        => /\ i >= 3
           /\ \A j \in (i - 2)..i : fed[k][j].newstatus = fed[k][i].status

\* C18 as stated: a watched sensor whose samples since startup all yielded
\* the candidate OK is confirmed OK, its change time has never been stamped
\* and no report pass has logged it
C18_AsStated ==
    \A k \in Sensors :
        /\ limits[k].watch = 1
        /\ Len(fed[k]) >= 1
        /\ \A i \in 1..Len(fed[k]) : fed[k][i].newstatus = SENSOR_S_OK
        => /\ limits[k].status = SENSOR_S_OK
           /\ limits[k].status_changed = 0
           /\ nlogged[k] = 0
           /\ ~Logged(k)

\* C19 as stated: a report pass logs every watched sensor whose confirmed
\* status check_sensors changed and that no pass has logged since: the first
\* pass after a change never misses it, whenever the clock advances
C19_AsStated ==
    [][ pc = "report" /\ next_report <= now /\ pc' = "sleep"
        => \A k \in Sensors :
             /\ limits[k].watch = 1
             /\ limits[k].status_changed # 0
             /\ nlogged[k] = 0
             => nlogged'[k] >= 1 ]_vars

\* C20 as stated: no delivery of SIGHUP is lost: whenever the reload flag is
\* clear, a parse_config run has started after every delivery so far, so
\* that a delivery is always followed by a run, which reads the file that
\* was on disk when the signal arrived (or a later one)
C20_AsStated == reload = 0 => served = sighups

=============================================================================
